---------------------------- MODULE Spec2Model ----------------------------
(***************************************************************************)
(* PostRenderer (js/main.js): fetch data/posts.json, render the records    *)
(* into #posts-container, and toggle the visibility of rendered posts by   *)
(* tag or by free-text search.                                             *)
(*                                                                         *)
(* Text is a sequence of one-character strings.  A JSON value read from a  *)
(* record field is [k, s, a]: k is "undef" (field absent), "str" (text s)  *)
(* or "arr" (array a of texts).                                            *)
(***************************************************************************)
EXTENDS Integers, Sequences, FiniteSets, TLC

VARIABLES
    env,          \* the browser: [tzWest, lenient], fixed for the page
    hasContainer, \* document.getElementById('posts-container') is non-null
    container,    \* child nodes of #posts-container, in document order
    ready,        \* DOMContentLoaded has fired
    nFetching,    \* loadPosts invocations suspended at await fetch(...)
    nParsing,     \* loadPosts invocations suspended at await response.json()
    fetchCount,   \* network retrievals issued so far
    lastLoad,     \* how the most recently completed loadPosts ended, and on what
    lastCall,     \* the last filter call made on the elements now rendered
    fmt,          \* formatDate applied on its own: [phase, input, out]
    esc           \* escapeHtml applied on its own: [phase, input, out]

vars == <<env, hasContainer, container, ready, nFetching, nParsing,
          fetchCount, lastLoad, lastCall, fmt, esc>>

-----------------------------------------------------------------------------
(* Bounds *)

MaxPosts == 2     \* longest fetched array
MaxLoads == 1     \* loadPosts() calls made by other scripts of the page
MaxLen == 3       \* longest text handed to escapeHtml on its own

-----------------------------------------------------------------------------
(* JSON values *)

Undef == [k |-> "undef", s |-> <<>>, a |-> <<>>]
Str(s) == [k |-> "str", s |-> s, a |-> <<>>]
Arr(a) == [k |-> "arr", s |-> <<>>, a |-> a]

\* JavaScript truthiness of a field value: undefined and '' are falsy,
\* every array (also the empty one) is truthy.
Truthy(v) == \/ v.k = "arr"
             \/ v.k = "str" /\ v.s # <<>>

\* a || b
OrElse(a, b) == IF Truthy(a) THEN a ELSE b

RECURSIVE Join(_)
\* Array.prototype.join(','), the string conversion of an array
Join(a) == IF a = <<>> THEN <<>>
           ELSE IF Len(a) = 1 THEN a[1]
           ELSE a[1] \o <<",">> \o Join(Tail(a))

-----------------------------------------------------------------------------
(* escapeHtml *)

Special == {"&", "<", ">", "\"", "'"}

\* map without the apostrophe entry
mapNoApostrophe(m) ==
    CASE m = "&" -> <<"&", "a", "m", "p", ";">>
      [] m = "<" -> <<"&", "l", "t", ";">>
      [] m = ">" -> <<"&", "g", "t", ";">>
      [] m = "\"" -> <<"&", "q", "u", "o", "t", ";">>
      [] OTHER -> <<m>>

map(m) ==
    CASE m = "&" -> <<"&", "a", "m", "p", ";">>
      [] m = "<" -> <<"&", "l", "t", ";">>
      [] m = ">" -> <<"&", "g", "t", ";">>
      [] m = "\"" -> <<"&", "q", "u", "o", "t", ";">>
      [] m = "'" -> <<"&", "#", "0", "3", "9", ";">>

RECURSIVE replaceAll(_)
\* text.replace(/[&<>"']/g, m => map[m])
replaceAll(s) ==
    IF s = <<>> THEN <<>>
    ELSE (IF Head(s) \in Special THEN map(Head(s)) ELSE <<Head(s)>>)
         \o replaceAll(Tail(s))

\* escapeHtml(text): text.replace is a TypeError unless text is a string
escapeHtml(text) ==
    IF text.k = "str" THEN [threw |-> FALSE, s |-> replaceAll(text.s)]
    ELSE [threw |-> TRUE, s |-> <<>>]

\* s starts with p
StartsWith(s, p) == Len(s) >= Len(p) /\ SubSeq(s, 1, Len(p)) = p

Drop(s, n) == SubSeq(s, n + 1, Len(s))

\* The character references the HTML parser decodes in text and attribute values
CharRef(c) ==
    CASE c = "&" -> <<"&", "a", "m", "p", ";">>
      [] c = "<" -> <<"&", "l", "t", ";">>
      [] c = ">" -> <<"&", "g", "t", ";">>
      [] c = "\"" -> <<"&", "q", "u", "o", "t", ";">>
      [] c = "'" -> <<"&", "#", "0", "3", "9", ";">>

RECURSIVE HtmlText(_)
\* textContent of the text node the HTML parser builds from markup: character
\* references are decoded, every other character is kept.
HtmlText(m) ==
    IF m = <<>> THEN <<>>
    ELSE IF \E c \in Special : StartsWith(m, CharRef(c))
         THEN LET c == CHOOSE x \in Special : StartsWith(m, CharRef(x))
              IN <<c>> \o HtmlText(Drop(m, Len(CharRef(c))))
         ELSE <<Head(m)>> \o HtmlText(Tail(m))

-----------------------------------------------------------------------------
(* formatDate *)

Digit == {"0", "1", "2", "3", "4", "5", "6", "7", "8", "9"}

DigitVal(c) ==
    CASE c = "0" -> 0 [] c = "1" -> 1 [] c = "2" -> 2 [] c = "3" -> 3
      [] c = "4" -> 4 [] c = "5" -> 5 [] c = "6" -> 6 [] c = "7" -> 7
      [] c = "8" -> 8 [] c = "9" -> 9

DigitChar(n) ==
    CASE n = 0 -> "0" [] n = 1 -> "1" [] n = 2 -> "2" [] n = 3 -> "3"
      [] n = 4 -> "4" [] n = 5 -> "5" [] n = 6 -> "6" [] n = 7 -> "7"
      [] n = 8 -> "8" [] n = 9 -> "9"

RECURSIVE NumVal(_)
NumVal(s) == IF s = <<>> THEN 0
             ELSE NumVal(SubSeq(s, 1, Len(s) - 1)) * 10 + DigitVal(s[Len(s)])

RECURSIVE NumText(_)
\* decimal digits of n, no leading zero
NumText(n) == IF n < 10 THEN <<DigitChar(n)>>
              ELSE NumText(n \div 10) \o <<DigitChar(n % 10)>>

IsLeap(y) == (y % 4 = 0 /\ y % 100 # 0) \/ y % 400 = 0

DaysIn(y, m) ==
    IF m = 2 THEN (IF IsLeap(y) THEN 29 ELSE 28)
    ELSE IF m \in {4, 6, 9, 11} THEN 30 ELSE 31

InvalidDate == [valid |-> FALSE, y |-> 0, m |-> 0, d |-> 0]

\* The shape YYYY-MM-DD
IsDateShape(s) ==
    /\ Len(s) = 10
    /\ s[5] = "-" /\ s[8] = "-"
    /\ \A i \in {1, 2, 3, 4, 6, 7, 9, 10} : s[i] \in Digit

\* Date.parse of a date-only text: the UTC day it names, or NaN.  A month
\* outside 1..12 or a day outside 1..31 is NaN in every engine; a day of 29..31
\* that the month lacks is NaN in an engine that parses strictly and rolls over
\* into the next month in a lenient one (env.lenient).  A text without a
\* digit is NaN; other texts are not given to it here.
DateParse(s) ==
    IF ~IsDateShape(s) THEN InvalidDate
    ELSE LET y == NumVal(SubSeq(s, 1, 4))
             m == NumVal(SubSeq(s, 6, 7))
             d == NumVal(SubSeq(s, 9, 10))
         IN IF m < 1 \/ m > 12 \/ d < 1 \/ d > 31 THEN InvalidDate
            ELSE IF d <= DaysIn(y, m) THEN [valid |-> TRUE, y |-> y, m |-> m, d |-> d]
            ELSE IF env.lenient
                 THEN [valid |-> TRUE, y |-> y, m |-> m + 1, d |-> d - DaysIn(y, m)]
                 ELSE InvalidDate

\* new Date(dateString): a non-string argument is converted to a string first
NewDate(dateString) ==
    DateParse(IF dateString.k = "arr" THEN Join(dateString.a) ELSE dateString.s)

\* The local calendar day of UTC midnight of date: the same day east of
\* Greenwich, the day before west of it (env.tzWest).
LocalDay(date) ==
    IF ~env.tzWest THEN date
    ELSE IF date.d > 1 THEN [date EXCEPT !.d = date.d - 1]
    ELSE IF date.m > 1
         THEN [date EXCEPT !.m = date.m - 1, !.d = DaysIn(date.y, date.m - 1)]
         ELSE [date EXCEPT !.y = date.y - 1, !.m = 12, !.d = 31]

MonthName(m) ==
    CASE m = 1 -> <<"J", "a", "n", "u", "a", "r", "y">>
      [] m = 2 -> <<"F", "e", "b", "r", "u", "a", "r", "y">>
      [] m = 3 -> <<"M", "a", "r", "c", "h">>
      [] m = 4 -> <<"A", "p", "r", "i", "l">>
      [] m = 5 -> <<"M", "a", "y">>
      [] m = 6 -> <<"J", "u", "n", "e">>
      [] m = 7 -> <<"J", "u", "l", "y">>
      [] m = 8 -> <<"A", "u", "g", "u", "s", "t">>
      [] m = 9 -> <<"S", "e", "p", "t", "e", "m", "b", "e", "r">>
      [] m = 10 -> <<"O", "c", "t", "o", "b", "e", "r">>
      [] m = 11 -> <<"N", "o", "v", "e", "m", "b", "e", "r">>
      [] m = 12 -> <<"D", "e", "c", "e", "m", "b", "e", "r">>

InvalidDateText == <<"I", "n", "v", "a", "l", "i", "d", " ", "D", "a", "t", "e">>

\* date.toLocaleDateString('en-US', {year: 'numeric', month: 'long',
\* day: 'numeric'}): "Invalid Date" for a NaN date, else "Month D, YYYY".
\* It throws a RangeError only for a malformed locale or option, and the
\* arguments here are the fixed literals.
toLocaleDateString(date) ==
    IF ~date.valid THEN [threw |-> FALSE, s |-> InvalidDateText]
    ELSE LET l == LocalDay(date)
         IN [threw |-> FALSE,
             s |-> MonthName(l.m) \o <<" ">> \o NumText(l.d) \o <<",", " ">>
                   \o NumText(l.y)]

\* formatDate(dateString)
formatDate(dateString) ==
    IF ~Truthy(dateString) THEN <<>>
    ELSE LET r == toLocaleDateString(NewDate(dateString))
         IN IF r.threw
            THEN (IF dateString.k = "arr" THEN Join(dateString.a) ELSE dateString.s)
            ELSE r.s

-----------------------------------------------------------------------------
(* DOM nodes *)

\* A child node of the container.  cls is its class; pieces are the texts
\* interpolated into its innerHTML, in template order, each [slot, markup, san]:
\* the slot of the template, the markup placed there, and whether that markup
\* is the return value of escapeHtml.
Node(cls, dataId, hasTagBlock, pieces) ==
    [cls |-> cls, dataId |-> dataId, display |-> "",
     hasTagBlock |-> hasTagBlock, pieces |-> pieces]

\* What the page's own markup puts in the container
InitialNode == Node("initial", "", FALSE, <<>>)

\* <p class="no-posts">No posts available.</p>
NoPostsNode == Node("no-posts", "", FALSE, <<>>)

\* The interpolation ${this.escapeHtml(v)}
Escaped(slot, v) ==
    LET r == escapeHtml(v)
    IN [slot |-> slot, markup |-> r.s, san |-> TRUE, threw |-> r.threw]

\* The interpolation ${text} of a text that is not an escapeHtml result
Unescaped(slot, text) ==
    [slot |-> slot, markup |-> text, san |-> FALSE, threw |-> FALSE]

\* ${this.formatDate(post.date)}
DatePiece(post) == Unescaped("date", formatDate(post.date))

\* createPostElement(post): [threw, el]
createPostElement(post) ==
    LET imageHTML ==
            IF Truthy(post.image)
            THEN <<Escaped("src", post.image), Escaped("alt", post.title)>>
            ELSE <<>>
        hasTags == Truthy(post.tags) /\ post.tags.k = "arr"
        tagsHTML ==
            IF hasTags
            THEN [i \in 1..Len(post.tags.a) |-> Escaped("tag", Str(post.tags.a[i]))]
            ELSE <<>>
        all == imageHTML
               \o <<Escaped("title", post.title),
                    Escaped("excerpt",
                            OrElse(post.excerpt, OrElse(post.description, Str(<<>>))))>>
               \o tagsHTML
               \o <<DatePiece(post)>>
               \o (IF Truthy(post.author)
                   THEN <<Escaped("author", post.author)>> ELSE <<>>)
               \o <<Escaped("href", OrElse(post.url, Str(<<"#">>)))>>
    IN [threw |-> \E i \in 1..Len(all) : all[i].threw,
        el |-> Node("post", post.id, hasTags,
                    [i \in 1..Len(all) |->
                        [slot |-> all[i].slot, markup |-> all[i].markup,
                         san |-> all[i].san]])]

RECURSIVE forEach(_, _)
\* posts.forEach(post => container.appendChild(this.createPostElement(post))):
\* [threw, c], c the children when it returns or throws
forEach(posts, c) ==
    IF posts = <<>> THEN [threw |-> FALSE, c |-> c]
    ELSE LET r == createPostElement(Head(posts))
         IN IF r.threw THEN [threw |-> TRUE, c |-> c]
            ELSE forEach(Tail(posts), Append(c, r.el))

\* renderPosts without container.innerHTML = ''
renderPostsNoClear(posts, c) ==
    IF ~hasContainer THEN [threw |-> FALSE, c |-> c]
    ELSE IF posts.k # "arr" THEN [threw |-> TRUE, c |-> c]
    ELSE IF Len(posts.a) = 0 THEN [threw |-> FALSE, c |-> <<NoPostsNode>>]
    ELSE forEach(posts.a, c)

\* renderPosts(posts) on children c: [threw, c].  posts is the parsed body
\* [k, a]: null, an object that is no array, or the array a of records.
\* Reading .length of null throws, and an object that is no array has no
\* forEach; both happen after the container was cleared.
renderPosts(posts, c) ==
    IF ~hasContainer THEN [threw |-> FALSE, c |-> c]
    ELSE IF posts.k # "arr" THEN [threw |-> TRUE, c |-> <<>>]
    ELSE IF Len(posts.a) = 0 THEN [threw |-> FALSE, c |-> <<NoPostsNode>>]
    ELSE forEach(posts.a, <<>>)

FailedMessage == <<"F", "a", "i", "l", "e", "d", " ", "t", "o", " ", "l", "o", "a", "d", " ", "p", "o", "s", "t", "s", ".", " ", "P", "l", "e", "a", "s", "e", " ", "t", "r", "y", " ", "a", "g", "a", "i", "n", " ", "l", "a", "t", "e", "r", ".">>

\* displayError(message) appending to the children instead of replacing them
displayErrorAppend(message, c) ==
    IF hasContainer
    THEN Append(c, Node("error-message", "", FALSE,
                        <<[slot |-> "message", markup |-> escapeHtml(Str(message)).s,
                           san |-> TRUE]>>))
    ELSE c

\* displayError(message) on children c
displayError(message, c) ==
    IF hasContainer
    THEN <<Node("error-message", "", FALSE,
                <<[slot |-> "message", markup |-> escapeHtml(Str(message)).s,
                   san |-> TRUE]>>)>>
    ELSE c

-----------------------------------------------------------------------------
(* Queries on rendered elements *)

\* textContent of the elements of el whose markup fills the slot
SlotTexts(el, slot) ==
    LET ps == SelectSeq(el.pieces, LAMBDA p : p.slot = slot)
    IN [i \in 1..Len(ps) |-> HtmlText(ps[i].markup)]

\* post.querySelector(sel)?.textContent || ''
FirstText(el, slot) ==
    LET ts == SlotTexts(el, slot) IN IF ts = <<>> THEN <<>> ELSE ts[1]

Upper == <<"A", "B", "C", "D", "E", "F", "G", "H", "I", "J", "K", "L", "M", "N", "O", "P", "Q", "R", "S", "T", "U", "V", "W", "X", "Y", "Z">>
Lower == <<"a", "b", "c", "d", "e", "f", "g", "h", "i", "j", "k", "l", "m", "n", "o", "p", "q", "r", "s", "t", "u", "v", "w", "x", "y", "z">>

\* String.prototype.toLowerCase
toLowerCase(s) ==
    [i \in 1..Len(s) |->
        IF \E j \in 1..Len(Upper) : Upper[j] = s[i]
        THEN Lower[CHOOSE j \in 1..Len(Upper) : Upper[j] = s[i]]
        ELSE s[i]]

\* String.prototype.includes
Includes(s, q) ==
    \E i \in 0..(Len(s) - Len(q)) : SubSeq(s, i + 1, i + Len(q)) = q

\* tags.includes(tag)
ArrayIncludes(tags, tag) == \E i \in 1..Len(tags) : tags[i] = tag

-----------------------------------------------------------------------------
(* Inputs *)

Post(id, title, excerpt, description, image, tags, date, author, url) ==
    [id |-> id, title |-> title, excerpt |-> excerpt, description |-> description,
     image |-> image, tags |-> tags, date |-> date, author |-> author, url |-> url]

\* The records data/posts.json may hold: one with tags, an author and
\* characters to escape; one with an image, a description in place of the
\* excerpt, tags that are no array and a date that is none; one with no field
\* at all
Posts ==
    { Post("1", Str(<<"C", "a", "t">>), Str(<<"&", "l", "t", ";", "b">>), Undef, Undef,
           Arr(<<<<"x">>, <<"<", "y", ">">>>>), Str(<<"2", "0", "2", "4", "-", "0", "3", "-", "0", "1">>),
           Str(<<"A", "&", "B">>), Undef),
      Post("2", Str(<<"d", "o", "g", "<">>), Str(<<>>), Str(<<"c", "a", "t", "'", "s">>), Str(<<"i">>),
           Str(<<"x">>), Str(<<"n", "o", "t", "-", "a", "-", "d", "a", "t", "e">>), Undef, Str(<<"u">>)),
      Post("3", Undef, Undef, Undef, Undef, Undef, Undef, Undef, Undef) }

RECURSIVE SeqsUpTo(_, _)
\* The sequences over S of length at most n
SeqsUpTo(S, n) ==
    IF n = 0 THEN {<<>>}
    ELSE LET shorter == SeqsUpTo(S, n - 1)
         IN shorter \cup {Append(s, x) : s \in shorter, x \in S}

\* What response.json() may resolve to: null, an object that is no array, or
\* an array of records
Bodies ==
    {[k |-> "null", a |-> <<>>], [k |-> "obj", a |-> <<>>]}
    \cup {[k |-> "arr", a |-> a] : a \in SeqsUpTo(Posts, MaxPosts)}

NoBody == [k |-> "none", a |-> <<>>]

\* The arguments filterByTag is called with
Tags == {<<"x">>, <<"<", "y", ">">>, <<"z">>}

\* The arguments searchPosts is called with
Queries == {<<"c", "a", "t">>, <<"D", "O", "G">>, <<>>, <<"<">>, <<"a", "m", "p">>}

\* The browsers the page runs in: west or east of Greenwich, with a lenient or
\* a strict date parser
Envs == [tzWest : BOOLEAN, lenient : BOOLEAN]

\* The date texts formatDate is applied to on its own: texts of the shape
\* YYYY-MM-DD, and texts without a digit
DateTexts ==
    { y \o <<"-">> \o m \o <<"-">> \o d :
        y \in {<<"2", "0", "2", "3">>, <<"2", "0", "2", "4">>},
        m \in {<<"0", "0">>, <<"0", "1">>, <<"0", "2">>, <<"0", "3">>, <<"0", "4">>, <<"1", "2">>, <<"1", "3">>},
        d \in {<<"0", "0">>, <<"0", "1">>, <<"1", "5">>, <<"2", "9">>, <<"3", "0">>, <<"3", "1">>, <<"3", "2">>} }
    \cup {<<"n", "o", "t", "-", "a", "-", "d", "a", "t", "e">>, <<"<", "b", ">">>, <<>>}

\* The values formatDate is applied to on its own
DateValues ==
    {Undef} \cup {Str(s) : s \in DateTexts}
    \cup {Arr(<<<<"2", "0", "2", "4", "-", "0", "3", "-", "1", "5">>>>), Arr(<<>>)}

\* The characters of the texts escapeHtml is applied to on its own
EscAlphabet == Special \cup {"a", ";"}

\* The values escapeHtml is applied to on its own
EscValues ==
    {Undef, Arr(<<>>)} \cup {Str(s) : s \in SeqsUpTo(EscAlphabet, MaxLen)}

-----------------------------------------------------------------------------
(* State *)

\* lastCall before any filter call on the elements now rendered.  reshown
\* records that the call showed an element an earlier call had hidden.
NoCall == [op |-> "none", arg |-> <<>>, reshown |-> FALSE]

\* lastLoad before any loadPosts has completed.  how is the await that ended
\* the invocation ("reject", "status", "parse", "json"), threw whether the catch
\* block ran, posts the body when it rendered, partial the number of post
\* elements appended when renderPosts threw.
NoLoad == [how |-> "none", posts |-> NoBody, threw |-> FALSE, partial |-> 0]

Init ==
    /\ env \in Envs
    /\ hasContainer \in BOOLEAN
    /\ container = IF hasContainer THEN <<InitialNode>> ELSE <<>>
    /\ ready = FALSE
    /\ nFetching = 0
    /\ nParsing = 0
    /\ fetchCount = 0
    /\ lastLoad = NoLoad
    /\ lastCall = NoCall
    /\ fmt = [phase |-> "idle", input |-> Undef, out |-> <<>>]
    /\ esc = [phase |-> "idle", input |-> Undef, threw |-> FALSE, out |-> <<>>]

pageVars == <<hasContainer, container, ready, nFetching, nParsing, fetchCount,
              lastLoad, lastCall>>

-----------------------------------------------------------------------------
(* loadPosts *)

\* loadPosts() up to its first suspension: fetch('data/posts.json') is issued
loadPosts ==
    /\ nFetching' = nFetching + 1
    /\ fetchCount' = fetchCount + 1
    /\ UNCHANGED <<env, hasContainer, container, nParsing, lastLoad, lastCall,
                   fmt, esc>>

\* The DOMContentLoaded listener: PostRenderer.init(), which calls loadPosts()
DOMContentLoaded ==
    /\ ~ready
    /\ ready' = TRUE
    /\ loadPosts

\* PostRenderer.loadPosts() called by another script of the page
ExternalLoadPosts ==
    /\ fetchCount - (IF ready THEN 1 ELSE 0) < MaxLoads
    /\ UNCHANGED ready
    /\ loadPosts

\* A catch block that logs and displays nothing
catchSilent(how, partial, c, f, p) ==
    /\ container' = c
    /\ lastLoad' = [how |-> how, posts |-> NoBody, threw |-> TRUE, partial |-> partial]
    /\ lastCall' = IF hasContainer THEN NoCall ELSE lastCall
    /\ nFetching' = f
    /\ nParsing' = p
    /\ UNCHANGED fetchCount

\* A catch block that also calls loadPosts() again
catchRetry(how, partial, c, f, p) ==
    /\ container' = displayError(FailedMessage, c)
    /\ lastLoad' = [how |-> how, posts |-> NoBody, threw |-> TRUE, partial |-> partial]
    /\ lastCall' = IF hasContainer THEN NoCall ELSE lastCall
    /\ fetchCount <= MaxLoads + 1
    /\ nFetching' = f + 1
    /\ nParsing' = p
    /\ fetchCount' = fetchCount + 1

\* The catch block of loadPosts, entered with children c, which ends the
\* invocation and leaves f invocations awaiting fetch and p awaiting json():
\* console.error(...); this.displayError('Failed to load posts. ...')
catch(how, partial, c, f, p) ==
    /\ container' = displayError(FailedMessage, c)
    /\ lastLoad' = [how |-> how, posts |-> NoBody, threw |-> TRUE, partial |-> partial]
    /\ lastCall' = IF hasContainer THEN NoCall ELSE lastCall
    /\ nFetching' = f
    /\ nParsing' = p
    /\ UNCHANGED fetchCount

\* await fetch(...) rejects: the network failed
FetchRejects ==
    /\ nFetching > 0
    /\ catch("reject", 0, container, nFetching - 1, nParsing)
    /\ UNCHANGED <<env, hasContainer, ready, fmt, esc>>

\* await fetch(...) resolves with !response.ok: throw new Error(...)
FetchNotOk ==
    /\ nFetching > 0
    /\ catch("status", 0, container, nFetching - 1, nParsing)
    /\ UNCHANGED <<env, hasContainer, ready, fmt, esc>>

\* await fetch(...) resolves with response.ok: response.json() is awaited
FetchOk ==
    /\ nFetching > 0
    /\ nFetching' = nFetching - 1
    /\ nParsing' = nParsing + 1
    /\ UNCHANGED <<env, hasContainer, container, ready, fetchCount, lastLoad,
                   lastCall, fmt, esc>>

\* await response.json() rejects: the body is not JSON
JsonRejects ==
    /\ nParsing > 0
    /\ catch("parse", 0, container, nFetching, nParsing - 1)
    /\ UNCHANGED <<env, hasContainer, ready, fmt, esc>>

\* await response.json() resolves with posts: this.renderPosts(posts), and the
\* catch block when it throws
JsonResolves(posts) ==
    /\ nParsing > 0
    /\ LET r == renderPosts(posts, container)
       IN IF r.threw
          THEN catch("json", Len(SelectSeq(r.c, LAMBDA n : n.cls = "post")),
                     r.c, nFetching, nParsing - 1)
          ELSE /\ container' = r.c
               /\ lastLoad' = [how |-> "json", posts |-> posts, threw |-> FALSE,
                               partial |-> 0]
               /\ lastCall' = IF hasContainer THEN NoCall ELSE lastCall
               /\ nParsing' = nParsing - 1
               /\ UNCHANGED <<nFetching, fetchCount>>
    /\ UNCHANGED <<env, hasContainer, ready, fmt, esc>>

-----------------------------------------------------------------------------
(* Filters *)

\* posts.forEach(post => { post.style.display = matches ? 'block' : 'none' })
\* over the .post elements among the children c; matches[i] is the test on c[i]
SetDisplay(c, matches) ==
    [i \in 1..Len(c) |->
        IF c[i].cls = "post"
        THEN [c[i] EXCEPT !.display = IF matches[i] THEN "block" ELSE "none"]
        ELSE c[i]]

\* The loop body hiding the elements that do not match and leaving the others
HideOnly(c, matches) ==
    [i \in 1..Len(c) |->
        IF c[i].cls = "post" /\ ~matches[i]
        THEN [c[i] EXCEPT !.display = "none"]
        ELSE c[i]]

\* tags.includes(tag) for each of the children c
TagMatches(c, tag) ==
    [i \in 1..Len(c) |-> ArrayIncludes(SlotTexts(c[i], "tag"), tag)]

\* title.includes(lowerQuery) || excerpt.includes(lowerQuery) for each of the
\* children c
TextMatches(c, lowerQuery) ==
    [i \in 1..Len(c) |->
        \/ Includes(toLowerCase(FirstText(c[i], "title")), lowerQuery)
        \/ Includes(toLowerCase(FirstText(c[i], "excerpt")), lowerQuery)]

\* filterByTag that never shows an element again
filterByTagHideOnly(c, tag) == HideOnly(c, TagMatches(c, tag))

\* filterByTag(tag) on the children c
filterByTag(c, tag) == SetDisplay(c, TagMatches(c, tag))

\* searchPosts comparing with the query as typed
searchPostsCaseSensitive(c, query) == SetDisplay(c, TextMatches(c, query))

\* searchPosts that never shows an element again
searchPostsHideOnly(c, query) == HideOnly(c, TextMatches(c, toLowerCase(query)))

\* searchPosts(query) on the children c
searchPosts(c, query) ==
    LET lowerQuery == toLowerCase(query)
    IN SetDisplay(c, TextMatches(c, lowerQuery))

\* Some element hidden in c is shown in d
Reshown(c, d) ==
    \E i \in 1..Len(c) : c[i].display = "none" /\ d[i].display = "block"

\* A script of the page calls PostRenderer.filterByTag(tag)
FilterByTagCall(tag) ==
    /\ container' = filterByTag(container, tag)
    /\ lastCall' = [op |-> "filterByTag", arg |-> tag,
                    reshown |-> Reshown(container, container')]
    /\ UNCHANGED <<env, hasContainer, ready, nFetching, nParsing, fetchCount,
                   lastLoad, fmt, esc>>

\* A script of the page calls PostRenderer.searchPosts(query)
SearchPostsCall(query) ==
    /\ container' = searchPosts(container, query)
    /\ lastCall' = [op |-> "searchPosts", arg |-> query,
                    reshown |-> Reshown(container, container')]
    /\ UNCHANGED <<env, hasContainer, ready, nFetching, nParsing, fetchCount,
                   lastLoad, fmt, esc>>

-----------------------------------------------------------------------------
(* The functions on their own *)

\* PostRenderer.formatDate(dateString)
FormatCall(dateString) ==
    /\ fmt.phase = "idle"
    /\ fmt' = [phase |-> "done", input |-> dateString, out |-> formatDate(dateString)]
    /\ UNCHANGED <<env, pageVars, esc>>

\* PostRenderer.escapeHtml(text)
EscapeCall(text) ==
    /\ esc.phase = "idle"
    /\ LET r == escapeHtml(text)
       IN esc' = [phase |-> "done", input |-> text, threw |-> r.threw, out |-> r.s]
    /\ UNCHANGED <<env, pageVars, fmt>>

-----------------------------------------------------------------------------
(* Specifications *)

\* The page as main.js drives it: one load on DOMContentLoaded, then filters
Next ==
    \/ DOMContentLoaded
    \/ FetchRejects
    \/ FetchNotOk
    \/ FetchOk
    \/ JsonRejects
    \/ \E posts \in Bodies : JsonResolves(posts)
    \/ \E tag \in Tags : FilterByTagCall(tag)
    \/ \E query \in Queries : SearchPostsCall(query)

Spec == Init /\ [][Next]_vars

\* The page with other scripts calling loadPosts() as well
NextReload ==
    \/ Next
    \/ ExternalLoadPosts

SpecReload == Init /\ [][NextReload]_vars

NextFormat == \E dateString \in DateValues : FormatCall(dateString)

SpecFormat == Init /\ [][NextFormat]_vars

NextEscape == \E text \in EscValues : EscapeCall(text)

SpecEscape == Init /\ [][NextEscape]_vars

-----------------------------------------------------------------------------
(* Properties *)

\* The post elements among the children c
PostBlocks(c) == SelectSeq(c, LAMBDA n : n.cls = "post")

\* n is the error block, showing exactly the fixed message
IsErrorMessage(n) ==
    /\ n.cls = "error-message"
    /\ SlotTexts(n, "message") = <<FailedMessage>>

\* What the container holds before any load has written to it
InitialContent == IF hasContainer THEN <<InitialNode>> ELSE <<>>

\* The children c are one post block per record of a, in the order of a
IsListOf(c, a) ==
    /\ Len(c) = Len(a)
    /\ \A i \in 1..Len(c) : c[i].cls = "post" /\ c[i].dataId = a[i].id

\* A record of the shape the data model gives: a title text, and every optional
\* field either absent or a text (tags of any shape: a tags value that is no
\* array counts as absent)
WellFormed(post) ==
    /\ post.title.k = "str"
    /\ \A v \in {post.excerpt, post.description, post.image, post.date,
                 post.author, post.url} : v.k \in {"undef", "str"}

\* C1: whenever loadPosts has failed (fetch rejected, status not ok, body not
\* JSON, or rendering threw, also after post blocks were appended) and the
\* container exists, the container holds exactly the fixed error message and
\* no post block.
C1_FailureShowsOnlyError ==
    (lastLoad.threw /\ hasContainer) =>
        /\ Len(container) = 1
        /\ IsErrorMessage(container[1])
        /\ PostBlocks(container) = <<>>

\* C1 witness: rendering threw after a post block had been appended
C1_Witness ==
    /\ hasContainer
    /\ lastLoad.how = "json" /\ lastLoad.threw /\ lastLoad.partial > 0
    /\ Len(container) = 1 /\ IsErrorMessage(container[1])

\* C2: whatever the container holds (its initial content, the placeholder, the
\* error message, an earlier render, filtered or not), renderPosts on a
\* non-empty array of well-formed records returns with the container holding
\* exactly one post block per record, in array order, block i carrying the
\* identifier of record i; and the container holds just that after a load
\* that rendered.
C2_RenderReplacesInOrder ==
    hasContainer =>
        /\ \A posts \in Bodies :
              ( /\ posts.k = "arr" /\ Len(posts.a) > 0
                /\ \A i \in 1..Len(posts.a) : WellFormed(posts.a[i]) )
              => LET r == renderPosts(posts, container)
                 IN ~r.threw /\ IsListOf(r.c, posts.a)
        /\ (lastLoad.how = "json" /\ ~lastLoad.threw /\ lastCall.op = "none"
            /\ lastLoad.posts.k = "arr" /\ Len(lastLoad.posts.a) > 0)
           => container = renderPosts(lastLoad.posts, <<>>).c

\* C2 witness: a second load has rendered two records over what the first
\* load left
C2_Witness ==
    /\ hasContainer
    /\ fetchCount >= 2 /\ nFetching = 0 /\ nParsing = 0
    /\ lastLoad.how = "json" /\ ~lastLoad.threw
    /\ Len(lastLoad.posts.a) = 2
    /\ lastLoad.posts.a[1].id # lastLoad.posts.a[2].id
    /\ IsListOf(container, lastLoad.posts.a)

\* C3: every text interpolated into the markup of a rendered post (image,
\* title, excerpt, tags, date, author, url) is a return value of escapeHtml.
C3_EveryInterpolationEscaped ==
    \A i \in 1..Len(container) :
        \A j \in 1..Len(container[i].pieces) : container[i].pieces[j].san

\* C4: formatDate returns the empty text for an absent or empty value, and
\* returns a non-empty text from which no date can be constructed unchanged.
C4_InvalidDateReturnedUnchanged ==
    fmt.phase = "done" =>
        /\ ~Truthy(fmt.input) => fmt.out = <<>>
        /\ ( /\ fmt.input.k = "str" /\ fmt.input.s # <<>>
             /\ ~NewDate(fmt.input).valid )
           => fmt.out = fmt.input.s

\* No character of out is a raw < > " or ', and every & of out begins one of
\* the five character references
RawFree(out) ==
    \A i \in 1..Len(out) :
        /\ out[i] \notin {"<", ">", "\"", "'"}
        /\ out[i] = "&" => \E c \in Special : StartsWith(Drop(out, i - 1), CharRef(c))

\* C5: the output of escapeHtml holds none of & < > " ' raw, and decoding
\* its character references gives back the input, so that every other
\* character is unchanged and in its place.
C5_EscapeLeavesNoRawCharacter ==
    (esc.phase = "done" /\ esc.input.k = "str") =>
        /\ ~esc.threw
        /\ RawFree(esc.out)
        /\ HtmlText(esc.out) = esc.input.s

\* C5 witness: a text with an apostrophe, an ampersand and another character
C5_Witness ==
    /\ esc.phase = "done" /\ esc.input.k = "str"
    /\ \E i, j, k \in 1..Len(esc.input.s) :
          /\ esc.input.s[i] = "'"
          /\ esc.input.s[j] = "&"
          /\ esc.input.s[k] \notin Special
    /\ Len(esc.out) > Len(esc.input.s)

\* The record has tags as an array that holds tag
RecordHasTag(post, tag) ==
    post.tags.k = "arr" /\ \E i \in 1..Len(post.tags.a) : post.tags.a[i] = tag

\* C6: after filterByTag(t) every rendered post is shown iff t equals the
\* text of one of its rendered tag elements, which are the tags of its
\* record, and is hidden otherwise; a post without a tag block is hidden.
C6_TagFilterShowsExactMatches ==
    lastCall.op = "filterByTag" =>
        \A i \in 1..Len(container) :
            container[i].cls = "post" =>
                LET el == container[i]
                    match == \E j \in 1..Len(SlotTexts(el, "tag")) :
                                 SlotTexts(el, "tag")[j] = lastCall.arg
                IN /\ el.display = IF match THEN "block" ELSE "none"
                   /\ match <=> RecordHasTag(lastLoad.posts.a[i], lastCall.arg)
                   /\ ~el.hasTagBlock => el.display = "none"

\* C6 witness: filterByTag left one post shown, one hidden, and one of the
\* hidden ones has no tag block
C6_Witness ==
    /\ lastCall.op = "filterByTag"
    /\ \E i, j \in 1..Len(container) :
          /\ container[i].cls = "post" /\ container[i].display = "block"
          /\ container[j].cls = "post" /\ container[j].display = "none"
          /\ ~container[j].hasTagBlock

\* The text of the record's excerpt element
RecordExcerpt(post) ==
    OrElse(post.excerpt, OrElse(post.description, Str(<<>>))).s

\* C7: after searchPosts(q) every rendered post is shown iff the lower-cased q
\* is a substring of its lower-cased title text or of its lower-cased excerpt
\* text, and is hidden otherwise; nothing else of the post is consulted.
C7_SearchShowsTitleOrExcerptMatches ==
    lastCall.op = "searchPosts" =>
        \A i \in 1..Len(container) :
            container[i].cls = "post" =>
                LET el == container[i]
                    q == toLowerCase(lastCall.arg)
                    match == \/ Includes(toLowerCase(FirstText(el, "title")), q)
                             \/ Includes(toLowerCase(FirstText(el, "excerpt")), q)
                    post == lastLoad.posts.a[i]
                IN /\ el.display = IF match THEN "block" ELSE "none"
                   /\ FirstText(el, "title") = post.title.s
                   /\ FirstText(el, "excerpt") = RecordExcerpt(post)

\* C7 witness: a query with a capital letter left one post shown and one hidden
C7_Witness ==
    /\ lastCall.op = "searchPosts"
    /\ \E k \in 1..Len(lastCall.arg) : toLowerCase(lastCall.arg)[k] # lastCall.arg[k]
    /\ \E i, j \in 1..Len(container) :
          /\ container[i].cls = "post" /\ container[i].display = "block"
          /\ container[j].cls = "post" /\ container[j].display = "none"

\* The call applied to the children c
ApplyCall(call, c) ==
    IF call.op = "filterByTag" THEN filterByTag(c, call.arg)
    ELSE IF call.op = "searchPosts" THEN searchPosts(c, call.arg)
    ELSE c

\* The children c as rendered, before any filter call
Unfiltered(c) == [i \in 1..Len(c) |-> [c[i] EXCEPT !.display = ""]]

\* C8: after any sequence of filterByTag and searchPosts calls on the same
\* rendered posts, the visibility of every post is what the last call alone
\* gives on the posts as rendered, and making the last call once more changes
\* nothing.
C8_FiltersMemorylessIdempotent ==
    lastCall.op # "none" =>
        /\ container = ApplyCall(lastCall, Unfiltered(container))
        /\ ApplyCall(lastCall, container) = container

\* C8 witness: the last call showed a post that an earlier call had hidden
C8_Witness ==
    /\ lastCall.op # "none"
    /\ lastCall.reshown
    /\ \E i \in 1..Len(container) :
          container[i].cls = "post" /\ container[i].display = "none"

\* C9: the page issues one retrieval, on DOMContentLoaded, and none after it
\* whatever the outcome; until the load has settled the container keeps its
\* initial content and no load has rendered or displayed an error.
C9_SingleRetrieval ==
    /\ fetchCount = IF ready THEN 1 ELSE 0
    /\ nFetching + nParsing <= 1
    /\ (nFetching + nParsing > 0 \/ ~ready) =>
          (container = InitialContent /\ lastLoad = NoLoad)

\* C9 witness: the retrieval has failed and nothing is in flight
C9_Witness ==
    /\ ready /\ fetchCount = 1
    /\ nFetching = 0 /\ nParsing = 0
    /\ lastLoad.threw
    /\ hasContainer /\ IsErrorMessage(container[1])

\* C10: between events the container holds its initial content, or the single
\* placeholder, or the single error message, or the complete in-order list of
\* post blocks of the array the last load fetched; nothing else.
C10_ContainerIsWhole ==
    \/ container = InitialContent
    \/ container = <<NoPostsNode>>
    \/ Len(container) = 1 /\ IsErrorMessage(container[1])
    \/ /\ lastLoad.how = "json" /\ ~lastLoad.threw
       /\ lastLoad.posts.k = "arr" /\ Len(lastLoad.posts.a) > 0
       /\ IsListOf(container, lastLoad.posts.a)

\* C10 witness: a list of two posts is shown, filtered, while another load is
\* awaiting its body
C10_Witness ==
    /\ nParsing > 0
    /\ fetchCount >= 2
    /\ Len(container) = 2
    /\ IsListOf(container, lastLoad.posts.a)
    /\ lastCall.op # "none"

=============================================================================
